---- MODULE Spec2Model ----
(***************************************************************************)
(* Vision service of the medical facility dashboard: the occupancy         *)
(* detector (detector.py, OccupancyDetector) and the reporting logic of    *)
(* the service (main.py, VisionService.process_frame) that sends room      *)
(* status updates and "needs cleaning" action items to the dashboard       *)
(* (dashboard_client.py, DashboardClient), and the life of the service     *)
(* from start() to stop() with its camera (camera.py, Camera).             *)
(*                                                                         *)
(* Time is in whole seconds and one process_frame() reads one clock        *)
(* value: the gateway calls are its only waits, update_room_status()       *)
(* runs on a tick that has just set last_status_change and nothing reads   *)
(* the clock after create_action_item().  A confidence c is held as the    *)
(* integer ConfidenceUnit * c, which is exact for every value the detector *)
(* computes (k/10.0, k/60.0, 0.5) and for the thresholds 0.3, 0.5, 0.7.    *)
(***************************************************************************)
EXTENDS Integers, Sequences, FiniteSets, TLC

\* ---------------------------------------------------------------- bounds
\* Last second the clock of the model reaches.
MaxTime == 330
\* Longest run of consecutive frames with motion.
MaxMotionFrames == 7
\* Longest run of consecutive frames without motion.
MaxNoMotionFrames == 42
\* Last second the clock reaches when the whole run() is followed.
ServiceMaxTime == 30

\* ------------------------------------------------------------- constants
ConfidenceUnit == 60
motion_threshold == 500
motion_frames_required == 3
no_motion_frames_required == 40
occupied_cooldown_seconds == 30
DefaultCleaningTimeoutMinutes == 5
\* Python's None for an Optional[datetime].
NoTime == -1
\* No frame has been measured yet.
NoPixels == -1

\* OCCUPANCY_CONFIDENCE: the default 0.7 and two lower settings, 0.3 and 0.5.
\* The detector compares the threshold with 3/10 when the status becomes
\* occupied and with at least 40/60 when it becomes available, so these three
\* stand for the thresholds up to 0.3, up to 40/60 and above.
DefaultConfidenceThreshold == (7 * ConfidenceUnit) \div 10
ConfidenceThresholds ==
    {(3 * ConfidenceUnit) \div 10, ConfidenceUnit \div 2, DefaultConfidenceThreshold}

\* Results of cv2.countNonZero(fg_mask): exactly the threshold, which is the
\* largest result that is no motion, and one above it.
MotionPixels == {motion_threshold, 800}
\* Seconds between one process_frame() and the next: under a second, half a
\* minute (a slow gateway, a slow camera), five minutes.
TimeSteps == {0, 30, 300}
\* CLEANING_TIMEOUT_MINUTES: the default, and 0 (cleaning asked for at once).
CleaningTimeouts == {0, DefaultCleaningTimeoutMinutes}
\* What cv2 does in Camera.connect(): VideoCapture() raises, the device does
\* not open, it opens but the test read fails, it opens and reads.
CameraOutcomes == {"raises", "unopened", "unreadable", "ok"}

Min(a, b) == IF a < b THEN a ELSE b

VARIABLES
    now,                      \* datetime.now() at the last process_frame(), in seconds
    confidence_threshold,     \* OccupancyDetector.confidence_threshold
    cleaning_timeout_minutes, \* VisionService.cleaning_timeout_minutes
    pc,                       \* where run() is: "start", "loop", "done"
    running,                  \* VisionService.running
    is_connected,             \* Camera.is_connected
    capture,                  \* Camera.capture: "none", "unopened", "open", "released"
    current_status,           \* OccupancyDetector.current_status
    last_motion_time,         \* OccupancyDetector.last_motion_time
    last_status_change,       \* OccupancyDetector.last_status_change
    motion_frames_count,      \* OccupancyDetector.motion_frames_count
    no_motion_frames_count,   \* OccupancyDetector.no_motion_frames_count
    cleaning_action_created,  \* VisionService.cleaning_action_created
    last_dashboard_status,    \* VisionService.last_dashboard_status
    frame_captured,           \* the last process_frame() got a frame
    previous_status,          \* current_status when the last process_frame() began
    confidence,               \* confidence returned by the last detect()
    changed,                  \* changed returned by the last detect()
    frame_motion_pixels,      \* motion_pixels of the last detect(), NoPixels before the first
    requests,                 \* gateway requests of the last process_frame(), in order
    last_status_request,      \* history: the most recent status-update request
    status_since,             \* history: when current_status last changed, NoTime if never
    period_requests,          \* history: action requests in this Available period (0, 1, many)
    period_accepted,          \* history: accepted action requests in this period (0, 1, many)
    period_late_request,      \* history: an action request followed an accepted one in this period
    startup,                  \* history: how start() went: "none", "no_camera", "ok", "degraded"
    exit_cause,               \* history: why run() returned: "none", "start_failed", "interrupt", "error"
    ticked                    \* history: process_frame() has been called

detector_vars ==
    <<current_status, last_motion_time, last_status_change,
      motion_frames_count, no_motion_frames_count>>
service_vars == <<cleaning_action_created, last_dashboard_status>>
history_vars ==
    <<last_status_request, status_since, period_requests, period_accepted, period_late_request>>
config_vars == <<confidence_threshold, cleaning_timeout_minutes>>
lifecycle_vars == <<pc, running, is_connected, capture, startup, exit_cause>>
vars ==
    <<now, config_vars, detector_vars, service_vars, lifecycle_vars, frame_captured,
      previous_status, confidence, changed, frame_motion_pixels, requests,
      history_vars, ticked>>

\* ------------------------------------------------- OccupancyDetector.detect
\* A detector for which a frame at the threshold has motion.
HasMotion_AtThreshold(motion_pixels) == motion_pixels >= motion_threshold

HasMotion(motion_pixels) == motion_pixels > motion_threshold

InCooldown(status, lsc, t) ==
    /\ status = "occupied"
    /\ lsc # NoTime
    /\ t - lsc < occupied_cooldown_seconds

\* A detector that takes a single frame with motion for occupancy.
DetectStatus_Eager(status, m, n, lsc, t) ==
    IF m >= 1
    THEN "occupied"
    ELSE IF n >= no_motion_frames_required
         THEN IF InCooldown(status, lsc, t) THEN status ELSE "available"
         ELSE status

\* current_status as lines 81-101 leave it, from the counters just updated.
DetectStatus(status, m, n, lsc, t) ==
    IF m >= motion_frames_required
    THEN "occupied"
    ELSE IF n >= no_motion_frames_required
         THEN IF InCooldown(status, lsc, t) THEN status ELSE "available"
         ELSE status

\* confidence as lines 81-101 compute it.
DetectConfidence(status, m, n, lsc, t) ==
    IF m >= motion_frames_required
    THEN Min(ConfidenceUnit, (m * ConfidenceUnit) \div 10)
    ELSE IF n >= no_motion_frames_required
         THEN IF InCooldown(status, lsc, t)
              THEN ConfidenceUnit \div 2
              ELSE Min(ConfidenceUnit, (n * ConfidenceUnit) \div 60)
         ELSE ConfidenceUnit \div 2

DetectChanged(before, status, conf, threshold) ==
    status # before /\ conf >= threshold

\* --------------------------- OccupancyDetector.should_trigger_cleaning
\* A detector that does not wait for the timeout.
ShouldTriggerCleaning_NoWait(status, lsc, t, timeout_minutes) ==
    /\ status = "available"
    /\ lsc # NoTime

ShouldTriggerCleaning(status, lsc, t, timeout_minutes) ==
    /\ status = "available"
    /\ lsc # NoTime
    /\ t - lsc >= timeout_minutes * 60

\* ------------------------------------------ VisionService.process_frame
DashboardStatus(status) == IF status = "occupied" THEN "occupied" ELSE "available"

\* A service that reports whenever the dashboard holds another status.
SendsStatus_EveryTick(chg, dashboard_status, last_sent) ==
    dashboard_status # last_sent

\* A service that sends every change, whatever it sent last.
SendsStatus_NoDebounce(chg, dashboard_status, last_sent) == chg

SendsStatus(chg, dashboard_status, last_sent) ==
    chg /\ dashboard_status # last_sent

\* A service that records the status as sent whatever the gateway answered.
StatusAfterUpdate_Always(success, dashboard_status, last_sent) == dashboard_status

StatusAfterUpdate(success, dashboard_status, last_sent) ==
    IF success THEN dashboard_status ELSE last_sent

FlagAfterChange(chg, status, flag) ==
    IF chg /\ status = "occupied" THEN FALSE ELSE flag

\* A service that asks for cleaning whatever the status is.
SendsAction_AnyStatus(status, flag, lsc, t) ==
    /\ ~flag
    /\ lsc # NoTime
    /\ t - lsc >= cleaning_timeout_minutes * 60

\* A service that does not look at cleaning_action_created.
SendsAction_IgnoresFlag(status, flag, lsc, t) ==
    /\ status = "available"
    /\ ShouldTriggerCleaning(status, lsc, t, cleaning_timeout_minutes)

SendsAction(status, flag, lsc, t) ==
    /\ status = "available"
    /\ ~flag
    /\ ShouldTriggerCleaning(status, lsc, t, cleaning_timeout_minutes)

\* A service that marks the cleaning action as created whatever the gateway
\* answered.
FlagAfterAction_Always(success, flag) == TRUE

FlagAfterAction(success, flag) == IF success THEN TRUE ELSE flag

Bump(k) == Min(k + 1, 2)

\* No status-update request has been made yet.
NoRequest == [type |-> "none", status |-> "none", success |-> TRUE]

\* ------------------------------------------------------------------ Camera
\* connect(): self.capture is assigned unless VideoCapture() raises, and is
\* an opened capture unless isOpened() is false.
CaptureAfterConnect(camera) ==
    CASE camera = "raises" -> "none"
      [] camera = "unopened" -> "unopened"
      [] OTHER -> "open"

ConnectResult(camera) == camera = "ok"

\* disconnect(): release() if there is a capture.
CaptureAfterDisconnect(cap) == IF cap = "none" THEN "none" ELSE "released"
ConnectedAfterDisconnect(cap, connected) == IF cap = "none" THEN connected ELSE FALSE

\* ----------------------------------------------------- VisionService.start
\* A service that refuses to start without the dashboard.
StartResult_NeedsDashboard(connected, dashboard_ok) == connected /\ dashboard_ok

\* start() returns False only when camera.connect() does; a failed
\* health_check() is logged.
StartResult(connected, dashboard_ok) == connected

\* The fields OccupancyDetector.__init__ and VisionService.__init__ set, and
\* the histories when nothing has happened yet.
Constructed ==
    /\ now = 0
    /\ current_status = "available"
    /\ last_motion_time = NoTime
    /\ last_status_change = NoTime
    /\ motion_frames_count = 0
    /\ no_motion_frames_count = 0
    /\ cleaning_action_created = FALSE
    /\ last_dashboard_status = "none"
    /\ frame_captured = FALSE
    /\ previous_status = "available"
    /\ confidence = 0
    /\ changed = FALSE
    /\ frame_motion_pixels = NoPixels
    /\ requests = <<>>
    /\ last_status_request = NoRequest
    /\ status_since = NoTime
    /\ period_requests = 0
    /\ period_accepted = 0
    /\ period_late_request = FALSE
    /\ ticked = FALSE

\* A service with the default cleaning timeout whose start() has succeeded:
\* run() is about to enter its loop.
Init ==
    /\ Constructed
    /\ confidence_threshold \in ConfidenceThresholds
    /\ cleaning_timeout_minutes = DefaultCleaningTimeoutMinutes
    /\ pc = "loop"
    /\ running = TRUE
    /\ is_connected = TRUE
    /\ capture = "open"
    /\ startup = "ok"
    /\ exit_cause = "none"

\* A service that has just been constructed: run() has not called start().
ServiceInit ==
    /\ Constructed
    /\ confidence_threshold \in ConfidenceThresholds
    /\ cleaning_timeout_minutes \in CleaningTimeouts
    /\ pc = "start"
    /\ running = FALSE
    /\ is_connected = FALSE
    /\ capture = "none"
    /\ startup = "none"
    /\ exit_cause = "none"

\* run() calls start(): camera.connect() and, with a camera, health_check().
Start(camera, dashboard_ok) ==
    LET connected == ConnectResult(camera)
        started == StartResult(connected, dashboard_ok)
    IN  /\ pc = "start"
        /\ connected \/ dashboard_ok
        /\ capture' = CaptureAfterConnect(camera)
        /\ is_connected' = connected
        /\ running' = started
        /\ pc' = IF started THEN "loop" ELSE "done"
        /\ startup' = IF ~connected THEN "no_camera"
                      ELSE IF dashboard_ok THEN "ok" ELSE "degraded"
        /\ exit_cause' = IF started THEN "none" ELSE "start_failed"
        /\ UNCHANGED <<now, config_vars, detector_vars, service_vars, frame_captured,
                       previous_status, confidence, changed, frame_motion_pixels,
                   requests, history_vars,
                       ticked>>

\* stop(), called from the finally clause of run(), and run() returns.
Stop(cause) ==
    /\ running' = FALSE
    /\ capture' = CaptureAfterDisconnect(capture)
    /\ is_connected' = ConnectedAfterDisconnect(capture, is_connected)
    /\ pc' = "done"
    /\ exit_cause' = cause
    /\ UNCHANGED startup

\* KeyboardInterrupt while run() is between two process_frame() calls.
Interrupt ==
    /\ pc = "loop"
    /\ Stop("interrupt")
    /\ UNCHANGED <<now, config_vars, detector_vars, service_vars, frame_captured,
                   previous_status, confidence, changed, frame_motion_pixels,
                   requests, history_vars,
                   ticked>>

\* process_frame() got a frame and a cv2 call of detect() (lines 58-65, before
\* any field is assigned) raised: run() logs the error and stops.
FrameError(dt) ==
    /\ pc = "loop"
    /\ running
    /\ now + dt <= ServiceMaxTime
    /\ now' = now + dt
    /\ ticked' = TRUE
    /\ frame_captured' = TRUE
    /\ previous_status' = current_status
    /\ confidence' = 0
    /\ changed' = FALSE
    /\ frame_motion_pixels' = frame_motion_pixels
    /\ requests' = <<>>
    /\ Stop("error")
    /\ UNCHANGED <<config_vars, detector_vars, service_vars, history_vars>>

\* A service that takes a missing frame for a frame without motion.
SkipFrame_CountsNoMotion(dt) ==
    /\ pc = "loop"
    /\ running
    /\ now + dt <= MaxTime
    /\ no_motion_frames_count < MaxNoMotionFrames
    /\ ticked' = TRUE
    /\ now' = now + dt
    /\ frame_captured' = FALSE
    /\ previous_status' = current_status
    /\ confidence' = 0
    /\ changed' = FALSE
    /\ frame_motion_pixels' = frame_motion_pixels
    /\ requests' = <<>>
    /\ motion_frames_count' = 0
    /\ no_motion_frames_count' = no_motion_frames_count + 1
    /\ UNCHANGED <<config_vars, current_status, last_motion_time, last_status_change,
                   service_vars, lifecycle_vars, history_vars>>

\* process_frame() when camera.get_frame() returns None, dt seconds after the
\* previous call.
SkipFrame(dt) ==
    /\ pc = "loop"
    /\ running
    /\ now + dt <= MaxTime
    /\ ticked' = TRUE
    /\ now' = now + dt
    /\ frame_captured' = FALSE
    /\ previous_status' = current_status
    /\ confidence' = 0
    /\ changed' = FALSE
    /\ frame_motion_pixels' = frame_motion_pixels
    /\ requests' = <<>>
    /\ UNCHANGED <<config_vars, detector_vars, service_vars, lifecycle_vars, history_vars>>

\* process_frame() dt seconds after the previous call, on a frame whose
\* foreground mask has motion_pixels pixels; status_ok and action_ok are the
\* gateway's answers to the requests made.
ProcessFrame(dt, motion_pixels, status_ok, action_ok) ==
    LET t == now + dt
        has_motion == HasMotion(motion_pixels)
        m == IF has_motion THEN motion_frames_count + 1 ELSE 0
        n == IF has_motion THEN 0 ELSE no_motion_frames_count + 1
        status == DetectStatus(current_status, m, n, last_status_change, t)
        conf == DetectConfidence(current_status, m, n, last_status_change, t)
        chg == DetectChanged(current_status, status, conf, confidence_threshold)
        lsc == IF chg THEN t ELSE last_status_change
        dashboard_status == DashboardStatus(status)
        sends_status == SendsStatus(chg, dashboard_status, last_dashboard_status)
        status_request ==
            [type |-> "status", status |-> dashboard_status, success |-> status_ok]
        flag == FlagAfterChange(chg, status, cleaning_action_created)
        sends_action == SendsAction(status, flag, lsc, t)
        action_request ==
            [type |-> "action", status |-> "needs_cleaning", success |-> action_ok]
        same_period == status = "available" /\ current_status = "available"
        before_requests == IF same_period THEN period_requests ELSE 0
        before_accepted == IF same_period THEN period_accepted ELSE 0
    IN  /\ pc = "loop"
        /\ running
        /\ t <= MaxTime
        /\ m <= MaxMotionFrames
        /\ n <= MaxNoMotionFrames
        /\ sends_status \/ status_ok
        /\ sends_action \/ action_ok
        /\ motion_frames_count' = m
        /\ no_motion_frames_count' = n
        /\ last_motion_time' = IF has_motion THEN t ELSE last_motion_time
        /\ current_status' = status
        /\ last_status_change' = lsc
        /\ frame_captured' = TRUE
        /\ previous_status' = current_status
        /\ confidence' = conf
        /\ changed' = chg
        /\ frame_motion_pixels' = motion_pixels
        /\ last_dashboard_status' =
               IF sends_status
               THEN StatusAfterUpdate(status_ok, dashboard_status, last_dashboard_status)
               ELSE last_dashboard_status
        /\ cleaning_action_created' =
               IF sends_action THEN FlagAfterAction(action_ok, flag) ELSE flag
        /\ requests' = (IF sends_status THEN <<status_request>> ELSE <<>>)
                       \o (IF sends_action THEN <<action_request>> ELSE <<>>)
        /\ last_status_request' =
               IF sends_status THEN status_request ELSE last_status_request
        /\ status_since' = IF status # current_status THEN t ELSE status_since
        /\ period_requests' =
               IF sends_action THEN Bump(before_requests) ELSE before_requests
        /\ period_accepted' =
               IF sends_action /\ action_ok THEN Bump(before_accepted) ELSE before_accepted
        /\ period_late_request' =
               \/ same_period /\ period_late_request
               \/ sends_action /\ before_accepted > 0
        /\ now' = t
        /\ ticked' = TRUE
        /\ UNCHANGED <<config_vars, lifecycle_vars>>

Next ==
    \/ \E dt \in TimeSteps : SkipFrame(dt)
    \/ \E dt \in TimeSteps, motion_pixels \in MotionPixels,
          status_ok \in BOOLEAN, action_ok \in BOOLEAN :
           ProcessFrame(dt, motion_pixels, status_ok, action_ok)

Spec == Init /\ [][Next]_vars

\* process_frame() within the first ServiceMaxTime seconds.
EarlySkipFrame(dt) == now + dt <= ServiceMaxTime /\ SkipFrame(dt)

EarlyProcessFrame(dt, motion_pixels, status_ok, action_ok) ==
    /\ now + dt <= ServiceMaxTime
    /\ ProcessFrame(dt, motion_pixels, status_ok, action_ok)

\* The whole of run(), from start() to its return, over the first
\* ServiceMaxTime seconds.
ServiceNext ==
    \/ \E camera \in CameraOutcomes, dashboard_ok \in BOOLEAN :
           Start(camera, dashboard_ok)
    \/ \E dt \in TimeSteps : EarlySkipFrame(dt)
    \/ \E dt \in TimeSteps, motion_pixels \in MotionPixels,
          status_ok \in BOOLEAN, action_ok \in BOOLEAN :
           EarlyProcessFrame(dt, motion_pixels, status_ok, action_ok)
    \/ \E dt \in TimeSteps : FrameError(dt)
    \/ Interrupt

ServiceSpec == ServiceInit /\ [][ServiceNext]_vars

TypeOK ==
    /\ now \in 0..MaxTime
    /\ confidence_threshold \in ConfidenceThresholds
    /\ current_status \in {"available", "occupied"}
    /\ last_motion_time \in {NoTime} \cup 0..MaxTime
    /\ last_status_change \in {NoTime} \cup 0..MaxTime
    /\ motion_frames_count \in 0..MaxMotionFrames
    /\ no_motion_frames_count \in 0..MaxNoMotionFrames
    /\ cleaning_action_created \in BOOLEAN
    /\ last_dashboard_status \in {"none", "available", "occupied"}
    /\ confidence \in 0..ConfidenceUnit
    /\ changed \in BOOLEAN
    /\ frame_captured \in BOOLEAN
    /\ previous_status \in {"available", "occupied"}
    /\ Len(requests) <= 2
    /\ frame_motion_pixels \in MotionPixels \cup {NoPixels}
    /\ cleaning_timeout_minutes \in CleaningTimeouts
    /\ pc \in {"start", "loop", "done"}
    /\ running \in BOOLEAN
    /\ is_connected \in BOOLEAN
    /\ capture \in {"none", "unopened", "open", "released"}
    /\ startup \in {"none", "no_camera", "ok", "degraded"}
    /\ exit_cause \in {"none", "start_failed", "interrupt", "error"}
    /\ ticked \in BOOLEAN

\* ------------------------------------------------------------------ claims
Requests(type) == {i \in DOMAIN requests : requests[i].type = type}
Failed(type) == \E i \in Requests(type) : ~requests[i].success
Accepted(type) == \E i \in Requests(type) : requests[i].success

\* The thresholds under which detect() returns changed = true on every change
\* of current_status (3/10 and 40/60 both reach the threshold).
EveryChangeReported == confidence_threshold * 10 <= 3 * ConfidenceUnit

\* C1: current_status goes from Available to Occupied only on a tick that is
\* at least the 3rd consecutive tick with motion, and from Occupied to
\* Available only on a tick that is at least the 40th consecutive tick
\* without motion, whatever the confidence threshold.
C1_Hysteresis ==
    [][/\ (current_status = "available" /\ current_status' = "occupied")
              => motion_frames_count' >= 3
       /\ (current_status = "occupied" /\ current_status' = "available")
              => no_motion_frames_count' >= 40]_vars

\* The room was taken for occupied and has just been taken for available again.
C1_Witness ==
    /\ frame_captured
    /\ previous_status = "occupied"
    /\ current_status = "available"
    /\ no_motion_frames_count >= 40

\* C2: an Occupied current_status does not become Available on a tick at which
\* fewer than occupied_cooldown_seconds have passed since it became Occupied.
C2_Cooldown ==
    [][(current_status = "occupied" /\ current_status' = "available")
           => now' - status_since >= 30]_vars

\* C3: on every tick of detect() that changes current_status, the confidence
\* of that tick is at least confidence_threshold.
C3_ConfidenceGating ==
    (frame_captured /\ current_status # previous_status)
        => confidence >= confidence_threshold

\* C4: with the default configuration, once motion has lasted so long that
\* the detector holds Occupied with a confidence of at least the threshold,
\* and the gateway has refused no status update, the update 'occupied' has
\* been sent and last_dashboard_status is Occupied.  (The claim says
\* "eventually"; from this state on more frames with motion change nothing
\* but the counter.)
C4_OccupancyReported ==
    (/\ confidence_threshold = DefaultConfidenceThreshold
     /\ frame_captured
     /\ current_status = "occupied"
     /\ motion_frames_count >= motion_frames_required
     /\ confidence >= confidence_threshold
     /\ last_status_request.success)
        => last_dashboard_status = "occupied"

\* C5 as stated: no two consecutive status-update requests carry the same
\* status, whatever the gateway answered.  Stated for the thresholds under
\* which every change of current_status is reported.
C5_Debounce ==
    [][EveryChangeReported
           => \A i \in Requests("status")' :
                  requests'[i].status # last_status_request.status]_vars

\* C5 as amended: no status-update request carries the status of the request
\* before it when the gateway accepted that one; after a refused request the
\* same status may be sent again.
C5_DebounceAfterSuccess ==
    [][\A i \in Requests("status")' :
           last_status_request.success
               => requests'[i].status # last_status_request.status]_vars

\* A tick with changed = true that sends nothing, the dashboard having the
\* status already.
C5_Witness ==
    /\ frame_captured
    /\ changed
    /\ Requests("status") = {}
    /\ last_dashboard_status = DashboardStatus(current_status)
    /\ last_status_request.status # last_dashboard_status

\* C6 as stated: within one Available period at most one action-creation
\* request is issued, whatever the gateway answers.  Stated for the thresholds
\* under which every change of current_status is reported.
C6_OneRequestPerPeriod == EveryChangeReported => period_requests <= 1

\* C6 as amended: within one Available period the gateway accepts at most one
\* action-creation request and none is issued after the accepted one; a
\* request the gateway refused is issued again.
C6_OneAcceptedPerPeriod == period_accepted <= 1 /\ ~period_late_request

\* A frame of an Available period whose request has been accepted: the timeout
\* is still exceeded and nothing is requested.
C6_Witness ==
    /\ frame_captured
    /\ current_status = "available"
    /\ previous_status = "available"
    /\ period_accepted = 1
    /\ period_requests = 2
    /\ ShouldTriggerCleaning(current_status, last_status_change, now,
                             cleaning_timeout_minutes)
    /\ requests = <<>>

\* C7: on every tick that takes current_status from Available to Occupied,
\* cleaning_action_created is false when the tick ends.
C7_ResetOnOccupied ==
    (frame_captured /\ previous_status = "available" /\ current_status = "occupied")
        => ~cleaning_action_created

\* C8: once current_status has been Available for cleaning_timeout_minutes
\* and a frame is captured, an action-creation request has been issued in
\* this Available period.  Stated for the periods that follow an occupancy;
\* the claim also names the period that begins at service start.
C8_CleaningTriggered ==
    (/\ frame_captured
     /\ current_status = "available"
     /\ status_since # NoTime
     /\ now - status_since >= cleaning_timeout_minutes * 60)
        => period_requests >= 1

\* C9: a tick whose status-update request fails leaves last_dashboard_status
\* as it was, a tick whose action-creation request fails leaves
\* cleaning_action_created false, and either flag is set only on a tick where
\* its own request succeeded.
C9_FailureKeepsFlags ==
    [][/\ (frame_captured' /\ Failed("status")')
              => last_dashboard_status' = last_dashboard_status
       /\ (frame_captured' /\ Failed("action")')
              => (~cleaning_action_created /\ ~cleaning_action_created')
       /\ last_dashboard_status' # last_dashboard_status
              => \E i \in Requests("status")' :
                     /\ requests'[i].success
                     /\ requests'[i].status = last_dashboard_status'
       /\ (cleaning_action_created' /\ ~cleaning_action_created)
              => Accepted("action")']_vars

\* The gateway has just refused a status update and the dashboard does not
\* have the status of the room.
C9_Witness ==
    /\ frame_captured
    /\ Failed("status")
    /\ changed
    /\ last_dashboard_status # DashboardStatus(current_status)

\* C10: after a status-update request has failed, a later tick that captures
\* a frame and leaves current_status as it is issues that request again
\* (the re-evaluation of the next tick is the retry).
C10_StatusRetried ==
    (/\ ~last_status_request.success
     /\ last_status_request.status = DashboardStatus(current_status)
     /\ frame_captured
     /\ previous_status = current_status)
        => Requests("status") # {}

\* C11: Scenario A. With motion threshold 500 and the default confidence
\* threshold, three consecutive frames with 800 moving pixels, starting from
\* Available, end with status Occupied and changed = true on the third
\* detect(); on the first two the status stays Available and changed = false.
C11_ScenarioA ==
    (/\ confidence_threshold = DefaultConfidenceThreshold
     /\ motion_threshold = 500
     /\ frame_captured
     /\ previous_status = "available"
     /\ motion_frames_count \in 1..3)
    => /\ current_status = "occupied" <=> motion_frames_count = 3
       /\ changed <=> motion_frames_count = 3

\* C12: Scenario C. With the default confidence threshold and a cooldown of
\* 30 s, the 40th consecutive frame without motion, 30 s or more after the
\* status became Occupied, ends with status Available and changed = true.
C12_ScenarioC ==
    [][(/\ confidence_threshold = DefaultConfidenceThreshold
        /\ occupied_cooldown_seconds = 30
        /\ current_status = "occupied"
        /\ status_since # NoTime
        /\ frame_captured'
        /\ no_motion_frames_count' = 40
        /\ now' - status_since >= 30)
       => current_status' = "available" /\ changed']_vars

\* C13: a tick whose detect() returns changed = false makes no status-update
\* request and leaves last_dashboard_status as it was; last_dashboard_status
\* changes only on a tick with changed = true whose status differs from it and
\* whose status-update request was accepted, and then to that status.
C13_ReportOnlyOnChange ==
    [][/\ ~changed' =>
            /\ \A i \in DOMAIN requests' : requests'[i].type # "status"
            /\ last_dashboard_status' = last_dashboard_status
       /\ last_dashboard_status' # last_dashboard_status =>
            /\ changed'
            /\ last_dashboard_status' = DashboardStatus(current_status')
            /\ \E i \in DOMAIN requests' :
                   requests'[i] = [type |-> "status",
                                   status |-> last_dashboard_status',
                                   success |-> TRUE]]_vars

\* A detect() with changed = false while the dashboard holds another status
\* than the detector's: nothing is sent.
C13_Witness ==
    /\ frame_captured
    /\ ~changed
    /\ last_dashboard_status = "occupied"
    /\ current_status = "available"
    /\ requests = <<>>

\* C14: a process_frame() that gets no frame changes nothing: current_status,
\* both frame counters, last_motion_time, last_status_change,
\* last_dashboard_status and cleaning_action_created are as before, no gateway
\* request is made, and run() stays in its loop.
C14_NoFrameNoEffect ==
    [][~frame_captured' =>
           /\ UNCHANGED <<detector_vars, service_vars>>
           /\ requests' = <<>>
           /\ pc' = "loop"
           /\ running']_vars

\* A missing frame when the room is occupied and one more frame without
\* motion would have made it available.
C14_Witness ==
    /\ ticked
    /\ ~frame_captured
    /\ current_status = "occupied"
    /\ no_motion_frames_count = no_motion_frames_required - 1
    /\ pc = "loop"

\* C15: start() succeeds and run() enters its loop whenever the camera could
\* be connected, whether or not the dashboard answered the health check; when
\* the camera could not be connected start() fails and run() returns without
\* a single process_frame() and without a gateway request.
C15_Startup ==
    /\ startup \in {"ok", "degraded"} =>
           /\ exit_cause # "start_failed"
           /\ pc = "loop" => running /\ is_connected
    /\ startup = "no_camera" =>
           /\ pc = "done"
           /\ exit_cause = "start_failed"
           /\ ~running
           /\ ~ticked
           /\ requests = <<>>

\* A service that started without the dashboard and has processed a frame.
C15_Witness ==
    /\ startup = "degraded"
    /\ pc = "loop"
    /\ running
    /\ ticked
    /\ frame_captured

\* The other case: no camera, run() has returned.
C15_WitnessNoCamera ==
    /\ startup = "no_camera"
    /\ pc = "done"

\* C16: after a successful start() only the stop signal ends the loop of
\* run(): when run() has returned after a successful start, it was because of
\* the KeyboardInterrupt, not because of a missing frame, a refused gateway
\* call or an error raised while a frame was processed.
C16_OnlyStopSignalEndsLoop ==
    (startup \in {"ok", "degraded"} /\ pc = "done") => exit_cause = "interrupt"

\* C17: whenever run() has returned after the camera had been opened (after
\* the stop signal, after the loop ended for another reason, or after a
\* start() that opened the camera and then failed), running is false and the
\* capture has been released.
C17_ReleasedOnReturn ==
    (pc = "done" /\ capture \in {"open", "released"}) =>
        /\ ~running
        /\ ~is_connected
        /\ capture = "released"

\* C18: one process_frame() makes at most one status-update request and at
\* most one action-creation request, the status update first when it makes
\* both, and it makes no action-creation request when the status detect()
\* returned is Occupied.
C18_RequestsPerTick ==
    /\ Cardinality(Requests("status")) <= 1
    /\ Cardinality(Requests("action")) <= 1
    /\ \A i \in Requests("status"), j \in Requests("action") : i < j
    /\ Requests("action") # {} => frame_captured /\ current_status = "available"

\* A process_frame() that made both requests (the cleaning timeout is 0).
C18_Witness ==
    /\ frame_captured
    /\ Len(requests) = 2
    /\ requests[1].type = "status"
    /\ requests[2].type = "action"

\* C19: after every detect(), current_status differs from its value before the
\* call exactly when changed is true, and then last_status_change is the time
\* of that call; so last_status_change is always the time current_status last
\* changed, and is unset exactly while current_status has never changed.
C19_MoveTogether ==
    /\ frame_captured =>
           /\ current_status # previous_status <=> changed
           /\ changed => last_status_change = now
    /\ last_status_change = status_since

\* C20: an action-creation request is made only by a process_frame() at whose
\* end current_status is Available, that found cleaning_action_created false,
\* and when current_status has been Available without interruption for at
\* least cleaning_timeout_minutes * 60 seconds; and whenever the status is
\* Available with last_status_change set, last_status_change is not older
\* than the start of the current Available period.
C20_CleaningOnlyAfterTimeout ==
    [][/\ (\E i \in DOMAIN requests' : requests'[i].type = "action") =>
              /\ current_status' = "available"
              /\ ~cleaning_action_created
              /\ status_since' # NoTime
              /\ now' - status_since' >= cleaning_timeout_minutes' * 60
       /\ (current_status' = "available" /\ last_status_change' # NoTime) =>
              /\ status_since' # NoTime
              /\ last_status_change' >= status_since']_vars

\* A cleaning action requested for a room that was occupied before and has
\* been available for the whole timeout.
C20_Witness ==
    /\ Requests("action") # {}
    /\ current_status = "available"
    /\ last_dashboard_status = "available"
    /\ now - status_since >= cleaning_timeout_minutes * 60
    /\ cleaning_timeout_minutes > 0

\* C21: a process_frame() makes at most one action-creation request; when
\* every action-creation request of the current Available period has failed,
\* the next process_frame() that gets a frame and finds the status still
\* Available makes the request again; and once a request of the period has
\* been accepted, no process_frame() of that period makes another.
C21_RetryUntilAccepted ==
    [][/\ Cardinality({i \in DOMAIN requests' : requests'[i].type = "action"}) <= 1
       /\ (/\ current_status = "available"
           /\ period_requests >= 1
           /\ period_accepted = 0
           /\ frame_captured'
           /\ current_status' = "available")
          => \E i \in DOMAIN requests' :
                 requests'[i].type = "action"
       /\ (/\ current_status = "available"
           /\ period_accepted >= 1
           /\ current_status' = "available")
          => \A i \in DOMAIN requests' :
                 requests'[i].type # "action"]_vars

\* An action-creation request accepted on a retry: an earlier one of the same
\* Available period had failed.
C21_Witness ==
    /\ frame_captured
    /\ current_status = "available"
    /\ Accepted("action")
    /\ period_requests = 2
    /\ period_accepted = 1

\* C22: motion_frames_count and no_motion_frames_count are never negative and
\* one of them is always 0; a detect() on a frame with more than
\* motion_threshold moving pixels adds 1 to motion_frames_count, sets
\* no_motion_frames_count to 0 and records the time in last_motion_time, any
\* other detect() on a frame adds 1 to no_motion_frames_count, sets
\* motion_frames_count to 0 and leaves last_motion_time alone; a frame with
\* exactly motion_threshold moving pixels is one without motion.
C22_FrameCounters ==
    [][/\ motion_frames_count' >= 0
       /\ no_motion_frames_count' >= 0
       /\ motion_frames_count' = 0 \/ no_motion_frames_count' = 0
       /\ frame_captured' =>
              IF frame_motion_pixels' > motion_threshold
              THEN /\ motion_frames_count' = motion_frames_count + 1
                   /\ no_motion_frames_count' = 0
                   /\ last_motion_time' = now'
              ELSE /\ motion_frames_count' = 0
                   /\ no_motion_frames_count' = no_motion_frames_count + 1
                   /\ last_motion_time' = last_motion_time
       /\ (frame_captured' /\ frame_motion_pixels' = motion_threshold) =>
              /\ motion_frames_count' = 0
              /\ no_motion_frames_count' = no_motion_frames_count + 1]_vars

\* A frame with exactly motion_threshold moving pixels after frames with
\* motion: the run of motion frames is broken.
C22_Witness ==
    /\ frame_captured
    /\ frame_motion_pixels = motion_threshold
    /\ motion_frames_count = 0
    /\ no_motion_frames_count = 1
    /\ last_motion_time # NoTime
    /\ current_status = "available"
====
